---- MODULE Spec2Model ----
(***************************************************************************)
(* properRace (utils) over the promise machinery it is written against:    *)
(* promises with reaction lists, and the FIFO microtask queue that runs    *)
(* their reaction jobs.  Input operations are caller-owned promises that   *)
(* settle on their own; properRace is called on pairs of them.  The timers *)
(* behind delay, retrieve, and the async/await script that uses the utils  *)
(* run on the same machinery.                                              *)
(***************************************************************************)
EXTENDS Integers, Sequences, FiniteSets, TLC

\* ------------------------------------------------------------------ bounds
\* number of properRace calls made in one behaviour
MaxCalls == 2

\* longest delay, in milliseconds, of a raced timer
MaxDelayMs == 2

\* largest start value and operand of a calculator, in absolute value
MaxOperand == 2

\* number of calls made in one calculator chain
MaxSteps == 3

\* bits of a random number and of the significand of every number
RandomBits == 3

\* ------------------------------------------------------------------ values
Val(t, x) == [type |-> t, v |-> x]

Undefined == Val("undefined", 0)

\* what each input operation produces when it succeeds: the two operations
\* have different result types (T1 = string, T2 = number)
ResultOf(i) == IF i = 1 THEN Val("string", "slow") ELSE Val("number", 42)

\* reasons the input operations may fail with
Reasons == {Val("string", "boom")}

\* the caller-owned operations handed to properRace
Ops == {1, 2}

\* promise identities: a reference to a promise is a value of type "promise"
OpId(i) == <<"op", i, 0>>
IndexPromiseId(c, index) == <<"indexPromises", c, index>>
RacePromiseId(c) == <<"Promise.race", c, 0>>
ReturnedId(c) == <<"properRace", c, 0>>

PromiseRef(id) == Val("promise", id)

Pending == [state |-> "pending", value |-> Undefined, reactions |-> <<>>]

VARIABLES
    fate,        \* what each operation produces when it completes
    heap,        \* promise identity -> [state, value, reactions]
    microtasks,  \* FIFO queue of promise reaction jobs
    calls,       \* per properRace call: pc, promiseArray
    order,       \* the operations in the order in which they settled
    snap,        \* per call: the operations settled at its call and at its return
    now,         \* the clock of the timers, in milliseconds
    timers,      \* pending setTimeout timers, in creation order
    log,         \* what has been logged, in order
    prog         \* the running script and its local variables

vars == <<fate, heap, microtasks, calls, order, snap, now, timers, log, prog>>

\* the timers, the log and the script: not used by a bare properRace
loopVars == <<now, timers, log, prog>>

\* a machine state threaded through the promise operations
Machine(h, q) == [heap |-> h, queue |-> q]

\* ------------------------------------------------------- promise machinery
Job(reaction, state, value) == [reaction |-> reaction, state |-> state, value |-> value]

RECURSIVE JobsFor(_, _, _)
JobsFor(reactions, state, value) ==
    IF reactions = <<>> THEN <<>>
    ELSE <<Job(Head(reactions), state, value)>> \o JobsFor(Tail(reactions), state, value)

\* settle without the already-settled guard and without clearing reactions
SettlePromiseUnguarded(M, id, state, value) ==
    Machine([M.heap EXCEPT ![id].state = state, ![id].value = value],
            M.queue \o JobsFor(M.heap[id].reactions, state, value))

\* resolve/reject functions of a promise: the first settlement wins, queues
\* one job per registered reaction and empties the reaction list
SettlePromise(M, id, state, value) ==
    IF M.heap[id].state # "pending" THEN M
    ELSE Machine([M.heap EXCEPT ![id] = [state |-> state, value |-> value, reactions |-> <<>>]],
                 M.queue \o JobsFor(M.heap[id].reactions, state, value))

\* promise.then / await: register the reaction while pending, queue its job
\* at once when the promise is already settled
Then(M, id, reaction) ==
    IF M.heap[id].state = "pending"
    THEN Machine([M.heap EXCEPT ![id].reactions = Append(@, reaction)], M.queue)
    ELSE Machine(M.heap, Append(M.queue, Job(reaction, M.heap[id].state, M.heap[id].value)))

\* any queued job may run next
RunnableAnyOrder(queue) == 1..Len(queue)

\* positions of the queue that may run next: the microtask queue is FIFO
Runnable(queue) == IF queue = <<>> THEN {} ELSE {1}

RemoveAt(queue, n) == SubSeq(queue, 1, n - 1) \o SubSeq(queue, n + 1, Len(queue))

\* -------------------------------------------------------------- properRace
Reaction(kind, c, index) == [kind |-> kind, call |-> c, index |-> index]

\* const promiseArray = [first, second]
PromiseArray(first, second) == <<OpId(first), OpId(second)>>

\* every callback returns the last index (closure over a shared counter)
IndexObserverLast(index, state, value) ==
    IF state = "fulfilled" THEN [state |-> "fulfilled", value |-> Val("number", 1)]
    ELSE [state |-> "rejected", value |-> value]

\* observers that swallow the failure of their operation
IndexObserverSwallow(index, state, value) ==
    [state |-> "fulfilled", value |-> Val("number", index)]

\* promise.then(() => index): yields the index when the operation fulfils;
\* there is no rejection handler, so a failure passes through unchanged
IndexObserver(index, state, value) ==
    IF state = "fulfilled" THEN [state |-> "fulfilled", value |-> Val("number", index)]
    ELSE [state |-> "rejected", value |-> value]

\* observers detached from their operations: Promise.resolve(index)
IndexPromisesDetached(M, c, promiseArray) ==
    LET M0 == SettlePromise(M, IndexPromiseId(c, 0), "fulfilled", Val("number", 0))
    IN  SettlePromise(M0, IndexPromiseId(c, 1), "fulfilled", Val("number", 1))

\* observers created from the last input to the first
IndexPromisesReversed(M, c, promiseArray) ==
    LET M0 == Then(M, promiseArray[2], Reaction("index", c, 1))
    IN  Then(M0, promiseArray[1], Reaction("index", c, 0))

\* promiseArray.map((promise, index) => promise.then(() => index))
IndexPromises(M, c, promiseArray) ==
    LET M0 == Then(M, promiseArray[1], Reaction("index", c, 0))
    IN  Then(M0, promiseArray[2], Reaction("index", c, 1))

\* Promise.race(indexPromises): subscribes to every observer in order
PromiseRaceSubscribe(M, c) ==
    LET M0 == Then(M, IndexPromiseId(c, 0), Reaction("race", c, 0))
    IN  Then(M0, IndexPromiseId(c, 1), Reaction("race", c, 1))

\* Promise.all in place of Promise.race: waits for every observer
PromiseAllSettle(M, c, state, value) ==
    IF state = "rejected" THEN SettlePromise(M, RacePromiseId(c), state, value)
    ELSE IF \A k \in 0..1 : M.heap[IndexPromiseId(c, k)].state = "fulfilled"
         THEN SettlePromise(M, RacePromiseId(c), state, value)
         ELSE M

\* the resolve/reject pair Promise.race hands to every observer
PromiseRaceSettle(M, c, state, value) ==
    SettlePromise(M, RacePromiseId(c), state, value)

\* the derived promise is returned in place of the original one
FirstFinishedDerived(promiseArray, c, firstFinishedIndex) ==
    IndexPromiseId(c, firstFinishedIndex)

\* the lookup takes the other element of the array
FirstFinishedSwapped(promiseArray, c, firstFinishedIndex) ==
    promiseArray[2 - firstFinishedIndex]

\* promiseArray[firstFinishedIndex] (the array is 0-based)
FirstFinishedPromise(promiseArray, c, firstFinishedIndex) ==
    promiseArray[firstFinishedIndex + 1]

\* return { promise: firstFinishedPromise }
Outcome(id) == Val("object", [promise |-> PromiseRef(id)])

\* a resolver that cancels the losing operation by rejecting it
ResumeCancelLoser(M, c, promiseArray, state, value) ==
    IF state = "fulfilled"
    THEN LET winner == FirstFinishedPromise(promiseArray, c, value.v)
             loser == promiseArray[2 - value.v]
             M0 == SettlePromise(M, loser, "rejected", Val("string", "cancelled"))
         IN  SettlePromise(M0, ReturnedId(c), "fulfilled", Outcome(winner))
    ELSE SettlePromise(M, ReturnedId(c), "rejected", value)

\* the continuation of `await Promise.race(indexPromises)`: looks up the
\* winner and returns the outcome, or throws what the await threw
Resume(M, c, promiseArray, state, value) ==
    IF state = "fulfilled"
    THEN SettlePromise(M, ReturnedId(c), "fulfilled",
                       Outcome(FirstFinishedPromise(promiseArray, c, value.v)))
    ELSE SettlePromise(M, ReturnedId(c), "rejected", value)

\* ----------------------------------------------------------------- actions
\* an operation either succeeds with its result or fails with some reason
Fates(i) == {[state |-> "fulfilled", value |-> ResultOf(i)]}
                \cup [state : {"rejected"}, value : Reasons]

Init ==
    /\ fate \in {f \in [Ops -> UNION {Fates(i) : i \in Ops}] : \A i \in Ops : f[i] \in Fates(i)}
    /\ heap = [id \in {OpId(i) : i \in Ops} |-> Pending]
    /\ microtasks = <<>>
    /\ calls = [c \in 1..MaxCalls |-> [pc |-> "idle", promiseArray |-> <<>>]]
    /\ order = <<>>
    /\ snap = [c \in 1..MaxCalls |-> [atCall |-> {}, atReturn |-> {}]]
    /\ now = 0
    /\ timers = <<>>
    /\ log = <<>>
    /\ prog = [script |-> "properRace"]

\* the operations that have settled so far
SettledOps == {i \in Ops : heap[OpId(i)].state # "pending"}

\* an input operation completes (timer, I/O, ...) with its own result
SettleOp(i) ==
    /\ heap[OpId(i)].state = "pending"
    /\ LET M == SettlePromise(Machine(heap, microtasks), OpId(i),
                              fate[i].state, fate[i].value)
       IN  /\ heap' = M.heap
           /\ microtasks' = M.queue
    /\ order' = Append(order, i)
    /\ UNCHANGED <<fate, calls, snap, loopVars>>

\* properRace(first, second) up to its await: runs to completion
Call(c, first, second) ==
    /\ calls[c].pc = "idle"
    /\ IF c = 1 THEN TRUE ELSE calls[c - 1].pc # "idle"
    /\ first # second
    /\ LET promiseArray == PromiseArray(first, second)
           fresh == [id \in {IndexPromiseId(c, 0), IndexPromiseId(c, 1),
                             RacePromiseId(c), ReturnedId(c)} |-> Pending]
           M0 == Machine(fresh @@ heap, microtasks)
           M1 == IndexPromises(M0, c, promiseArray)
           M2 == PromiseRaceSubscribe(M1, c)
           M3 == Then(M2, RacePromiseId(c), Reaction("await", c, 0))
       IN  /\ heap' = M3.heap
           /\ microtasks' = M3.queue
           /\ calls' = [calls EXCEPT ![c] = [pc |-> "awaiting", promiseArray |-> promiseArray]]
    /\ snap' = [snap EXCEPT ![c].atCall = SettledOps]
    /\ UNCHANGED <<fate, order, loopVars>>

\* the job of an index observer: () => index
RunIndexJob(n) ==
    /\ n \in Runnable(microtasks)
    /\ microtasks[n].reaction.kind = "index"
    /\ LET job == microtasks[n]
           res == IndexObserver(job.reaction.index, job.state, job.value)
           M == SettlePromise(Machine(heap, RemoveAt(microtasks, n)),
                              IndexPromiseId(job.reaction.call, job.reaction.index),
                              res.state, res.value)
       IN  /\ heap' = M.heap
           /\ microtasks' = M.queue
    /\ UNCHANGED <<fate, calls, order, snap, loopVars>>

\* the job Promise.race attached to an index observer
RunRaceJob(n) ==
    /\ n \in Runnable(microtasks)
    /\ microtasks[n].reaction.kind = "race"
    /\ LET job == microtasks[n]
           M == PromiseRaceSettle(Machine(heap, RemoveAt(microtasks, n)),
                                  job.reaction.call, job.state, job.value)
       IN  /\ heap' = M.heap
           /\ microtasks' = M.queue
    /\ UNCHANGED <<fate, calls, order, snap, loopVars>>

\* properRace resumes after its await and returns (or throws)
RunAwaitJob(n) ==
    /\ n \in Runnable(microtasks)
    /\ microtasks[n].reaction.kind = "await"
    /\ LET job == microtasks[n]
           c == job.reaction.call
           M == Resume(Machine(heap, RemoveAt(microtasks, n)), c,
                       calls[c].promiseArray, job.state, job.value)
       IN  /\ heap' = M.heap
           /\ microtasks' = M.queue
           /\ calls' = [calls EXCEPT ![c].pc = "done"]
           /\ snap' = [snap EXCEPT ![c].atReturn = SettledOps]
    /\ UNCHANGED <<fate, order, loopVars>>

RunJob == \E n \in 1..Len(microtasks) : RunIndexJob(n) \/ RunRaceJob(n) \/ RunAwaitJob(n)

Next ==
    \/ \E i \in Ops : SettleOp(i)
    \/ \E c \in 1..MaxCalls, first, second \in Ops : Call(c, first, second)
    \/ \E n \in 1..Len(microtasks) : RunIndexJob(n)
    \/ \E n \in 1..Len(microtasks) : RunRaceJob(n)
    \/ \E n \in 1..Len(microtasks) : RunAwaitJob(n)

Spec == Init /\ [][Next]_vars

\* microtasks always run to exhaustion; nothing forces an operation to settle
FairSpec == Spec /\ WF_vars(RunJob)

TypeOK ==
    /\ \A id \in DOMAIN heap : heap[id].state \in {"pending", "fulfilled", "rejected"}
    /\ \A c \in 1..MaxCalls : calls[c].pc \in {"idle", "awaiting", "done"}

\* ------------------------------------------------------------------ timers
\* the smallest delay the runtime gives a timer: setTimeout runs a delay
\* below 1 as 1 on Node.js and as 0 where it follows the HTML rules
MinTimeouts == {0, 1}

Clamp(ms) == IF ms < prog.minTimeout THEN prog.minTimeout ELSE ms

\* setTimeout(resolve, milliseconds) for the promise id
SetTimeout(ts, id, ms) ==
    Append(ts, [due |-> now + Clamp(ms), ms |-> Clamp(ms), id |-> id])

\* timers run in the order in which they were created, whatever their delay
FireableInCreationOrder(ts) == IF ts = <<>> THEN {} ELSE {1}

\* the timers that may run next: one that is due first; timers of the same
\* delay run in the order of their creation, and the order of timers of
\* different delays that are due together is left to the runtime
Fireable(ts) ==
    {k \in 1..Len(ts) :
        /\ \A j \in 1..Len(ts) : ts[k].due <= ts[j].due
        /\ \A j \in 1..(k - 1) : ~(ts[j].due = ts[k].due /\ ts[j].ms = ts[k].ms)}

\* the promise machinery once a timer has run: delay's promise is fulfilled
\* with undefined
TimerRuns(k) ==
    LET M == SettlePromise(Machine(heap, microtasks), timers[k].id, "fulfilled", Undefined)
    IN  /\ heap' = M.heap
        /\ microtasks' = M.queue
        /\ timers' = RemoveAt(timers, k)
        /\ now' = IF timers[k].due > now THEN timers[k].due ELSE now

\* --------------------------------------------- properRace over two timers
\* properRace from its first statement up to its await
ProperRace(M, c, promiseArray) ==
    LET M1 == IndexPromises(M, c, promiseArray)
        M2 == PromiseRaceSubscribe(M1, c)
    IN  Then(M2, RacePromiseId(c), Reaction("await", c, 0))

FreshRace(c) ==
    [id \in {IndexPromiseId(c, 0), IndexPromiseId(c, 1),
              RacePromiseId(c), ReturnedId(c)} |-> Pending]

\* two operations delay(ms[1]) and delay(ms[2]), started one after the other
\* and raced in the same turn, in either argument order
TimerRaceInit ==
    /\ fate = [i \in Ops |-> [state |-> "fulfilled", value |-> Undefined]]
    /\ heap = [id \in {OpId(i) : i \in Ops} |-> Pending]
    /\ microtasks = <<>>
    /\ calls = [c \in 1..MaxCalls |-> [pc |-> "idle", promiseArray |-> <<>>]]
    /\ order = <<>>
    /\ snap = [c \in 1..MaxCalls |-> [atCall |-> {}, atReturn |-> {}]]
    /\ now = 0
    /\ timers = <<>>
    /\ log = <<>>
    /\ \E ms \in [Ops -> 0..MaxDelayMs], startedFirst \in Ops, minTimeout \in MinTimeouts :
          prog = [script |-> "timerRace", ms |-> ms, startedFirst |-> startedFirst,
                  minTimeout |-> minTimeout]

\* const a = delay(..); const b = delay(..); properRace(first, second)
RaceTimers(first, second) ==
    /\ calls[1].pc = "idle"
    /\ first # second
    /\ LET a == prog.startedFirst
           b == CHOOSE i \in Ops : i # a
           promiseArray == PromiseArray(first, second)
           M == ProperRace(Machine(FreshRace(1) @@ heap, microtasks), 1, promiseArray)
       IN  /\ timers' = SetTimeout(SetTimeout(timers, OpId(a), prog.ms[a]), OpId(b), prog.ms[b])
           /\ heap' = M.heap
           /\ microtasks' = M.queue
           /\ calls' = [calls EXCEPT ![1] = [pc |-> "awaiting", promiseArray |-> promiseArray]]
    /\ UNCHANGED <<fate, order, snap, now, log, prog>>

\* a timer of one of the two operations runs: timers run between turns, when
\* no microtask is left
OpTimerFires(k) ==
    /\ microtasks = <<>>
    /\ k \in Fireable(timers)
    /\ TimerRuns(k)
    /\ order' = Append(order, timers[k].id[2])
    /\ UNCHANGED <<fate, calls, snap, log, prog>>

TimerRaceNext ==
    \/ \E first, second \in Ops : RaceTimers(first, second)
    \/ \E k \in 1..Len(timers) : OpTimerFires(k)
    \/ \E n \in 1..Len(microtasks) : RunIndexJob(n)
    \/ \E n \in 1..Len(microtasks) : RunRaceJob(n)
    \/ \E n \in 1..Len(microtasks) : RunAwaitJob(n)

TimerRaceSpec == TimerRaceInit /\ [][TimerRaceNext]_vars

\* ------------------------------------------------- the async/await script
\* const printNumbersDelay: number = 400
printNumbersDelay == 400

\* console.log writes no timestamp
NoTimestamp == -1

Id(name, n) == <<name, n, 0>>

String(x) == Val("string", x)
Number(x) == Val("number", x)

\* the state a handler works on: promises, microtasks, timers, log, locals
World == [heap |-> heap, queue |-> microtasks, timers |-> timers, log |-> log, prog |-> prog]

OnMachine(W, M) == [W EXCEPT !.heap = M.heap, !.queue = M.queue]

\* new Promise(...)
NewPromise(W, id) == [W EXCEPT !.heap = (id :> Pending) @@ @]

\* promise.then(callback) and `await promise`
WThen(W, id, reaction) == OnMachine(W, Then(Machine(W.heap, W.queue), id, reaction))

\* resolve(value) / an async function returning or throwing
WSettle(W, id, state, value) ==
    OnMachine(W, SettlePromise(Machine(W.heap, W.queue), id, state, value))

\* `await value` of a value that is no promise: the continuation is queued
WQueue(W, reaction, value) ==
    [W EXCEPT !.queue = Append(@, Job(reaction, "fulfilled", value))]

\* delay(milliseconds)
Delay(W, id, milliseconds) ==
    [NewPromise(W, id) EXCEPT !.timers = SetTimeout(@, id, milliseconds)]

\* logTimestamped(message); `by` names the function that logs
LogTimestamped(W, by, message) ==
    [W EXCEPT !.log = Append(@, [timestamp |-> now, by |-> by, message |-> message])]

ConsoleLog(W, by, message) ==
    [W EXCEPT !.log = Append(@, [timestamp |-> NoTimestamp, by |-> by, message |-> message])]

\* logSpacer()
LogSpacer(W) ==
    ConsoleLog(ConsoleLog(ConsoleLog(W, "logSpacer", String("")),
                          "logSpacer", String("---")), "logSpacer", String(""))

\* a handler has run: its effects become the next state
Commit(W) ==
    /\ heap' = W.heap
    /\ microtasks' = W.queue
    /\ timers' = W.timers
    /\ log' = W.log
    /\ prog' = W.prog
    /\ UNCHANGED <<fate, calls, order, snap, now>>

\* the world once the job at position n has been taken off the queue
Taken(n) == [World EXCEPT !.queue = RemoveAt(@, n)]

IsJob(n, kind) == n \in Runnable(microtasks) /\ microtasks[n].reaction.kind = kind

\* delay(printNumbersDelay).then(() => { log(k); ... }) of nesting level k
PrintNumbersLevel(W, k) ==
    LET W1 == Delay(W, Id("printNumbers.delay", k), printNumbersDelay)
        W2 == NewPromise(W1, Id("printNumbers", k))
    IN  WThen(W2, Id("printNumbers.delay", k), Reaction("printNumbers", k, 0))

DemoInit ==
    /\ fate = [i \in Ops |-> [state |-> "fulfilled", value |-> Undefined]]
    /\ heap = [id \in {} |-> Pending]
    /\ microtasks = <<>>
    /\ calls = [c \in 1..MaxCalls |-> [pc |-> "idle", promiseArray |-> <<>>]]
    /\ order = <<>>
    /\ snap = [c \in 1..MaxCalls |-> [atCall |-> {}, atReturn |-> {}]]
    /\ now = 0
    /\ timers = <<>>
    /\ log = <<>>
    /\ \E minTimeout \in MinTimeouts :
          prog = [script |-> "demo", minTimeout |-> minTimeout, main |-> 0,
                  downloadFinished |-> FALSE, delayedResult |-> Undefined,
                  asyncDownloadFinished |-> FALSE]

\* the script runs up to its first await: `await printNumbers`
MainStarts ==
    /\ prog.script = "demo" /\ prog.main = 0
    /\ LET W1 == PrintNumbersLevel(World, 1)
           W2 == WThen(W1, Id("printNumbers", 1), Reaction("main", 1, 0))
       IN  Commit([W2 EXCEPT !.prog.main = 1])

\* the callback of nesting level k: logs k and returns the promise of the
\* next level, which the promise of this level is then resolved with
PrintNumbersCallback(n) ==
    /\ IsJob(n, "printNumbers")
    /\ LET k == microtasks[n].reaction.call
           W1 == LogTimestamped(Taken(n), "printNumbers", Number(k))
       IN  IF k < 5
           THEN Commit(WQueue(PrintNumbersLevel(W1, k + 1),
                              Reaction("thenable", k, 0), Undefined))
           ELSE Commit(WSettle(W1, Id("printNumbers", k), "fulfilled", Undefined))

\* a promise resolved with a promise: a job subscribes to the inner promise
ThenableJob(n) ==
    /\ IsJob(n, "thenable")
    /\ LET k == microtasks[n].reaction.call
       IN  Commit(WThen(Taken(n), Id("printNumbers", k + 1), Reaction("forward", k, 0)))

\* and takes over its outcome
ForwardJob(n) ==
    /\ IsJob(n, "forward")
    /\ LET job == microtasks[n]
       IN  Commit(WSettle(Taken(n), Id("printNumbers", job.reaction.call), job.state, job.value))

\* a timer runs: timers run between turns, when no microtask is left
TimerFires(k) ==
    /\ prog.script = "demo"
    /\ microtasks = <<>>
    /\ k \in Fireable(timers)
    /\ TimerRuns(k)
    /\ UNCHANGED <<fate, calls, order, snap, log, prog>>

\* printNumbersRecursion(currentNumber): delay(..).then(() => { ... })
PrintNumbersRecursion(W, currentNumber) ==
    LET W1 == Delay(W, Id("printNumbersRecursion.delay", currentNumber), printNumbersDelay)
    IN  WThen(W1, Id("printNumbersRecursion.delay", currentNumber),
              Reaction("printNumbersRecursion", currentNumber, 0))

\* the callback inside printNumbersRecursion
PrintNumbersRecursionCallback(n) ==
    /\ IsJob(n, "printNumbersRecursion")
    /\ LET currentNumber == microtasks[n].reaction.call
           W1 == LogTimestamped(Taken(n), "printNumbersRecursively", Number(currentNumber + 1))
       IN  IF currentNumber # 4
           THEN Commit(PrintNumbersRecursion(W1, currentNumber + 1))
           ELSE Commit(WSettle(W1, Id("printNumbersRecursively", 0), "fulfilled", Undefined))

\* a reporter that never looks at the flag
ReportProgressForever(W) ==
    LET r == Cardinality({e \in DOMAIN W.heap : e[1] = "reportProgress.delay"})
        W1 == LogTimestamped(W, "reportProgress", String("Still downloading..."))
        W2 == Delay(W1, Id("reportProgress.delay", r), 1000)
    IN  WThen(W2, Id("reportProgress.delay", r), Reaction("reportProgress", r, 0))

\* reportProgress() of the callback-based download
ReportProgress(W) ==
    IF ~W.prog.downloadFinished
    THEN LET r == Cardinality({e \in DOMAIN W.heap : e[1] = "reportProgress.delay"})
             W1 == LogTimestamped(W, "reportProgress", String("Still downloading..."))
             W2 == Delay(W1, Id("reportProgress.delay", r), 1000)
         IN  WThen(W2, Id("reportProgress.delay", r), Reaction("reportProgress", r, 0))
    ELSE LogTimestamped(W, "reportProgress", String("Download finished, stop reporting."))

\* delay(1000).then(reportProgress)
ReportProgressCallback(n) ==
    /\ IsJob(n, "reportProgress")
    /\ Commit(ReportProgress(Taken(n)))

\* delay(3000).then(() => { downloadFinished = true; log('Download finished.') })
DownloadFileCallback(n) ==
    /\ IsJob(n, "downloadFile")
    /\ LET W1 == [Taken(n) EXCEPT !.prog.downloadFinished = TRUE]
           W2 == LogTimestamped(W1, "downloadFile", String("Download finished."))
       IN  Commit(WSettle(W2, Id("downloadFile", 0), "fulfilled", Undefined))

\* the script from `await printNumbers` to `await printNumbersRecursively`
AfterPrintNumbers(W) ==
    LET W1 == NewPromise(LogSpacer(W), Id("printNumbersRecursively", 0))
        W2 == PrintNumbersRecursion(W1, 0)
    IN  WThen(W2, Id("printNumbersRecursively", 0), Reaction("main", 2, 0))

\* ... to `await downloadFile`
AfterPrintNumbersRecursively(W) ==
    LET W1 == LogTimestamped(LogSpacer(W), "main", String("Download started..."))
        W2 == [W1 EXCEPT !.prog.downloadFinished = FALSE]
        W3 == NewPromise(Delay(W2, Id("downloadFile.delay", 0), 3000), Id("downloadFile", 0))
        W4 == WThen(W3, Id("downloadFile.delay", 0), Reaction("downloadFile", 0, 0))
        W5 == ReportProgress(W4)
    IN  WThen(W5, Id("downloadFile", 0), Reaction("main", 3, 0))

\* ... to `await delay(2000)`
AfterDownloadFile(W) ==
    LET W1 == LogTimestamped(LogSpacer(W), "main", String("Starting to wait..."))
        W2 == Delay(W1, Id("main.delay", 0), 2000)
    IN  WThen(W2, Id("main.delay", 0), Reaction("main", 4, 0))

\* `await x`: subscribes to a promise, queues the continuation for a value
Await(W, x, reaction) ==
    IF x.type = "promise" THEN WThen(W, x.v, reaction) ELSE WQueue(W, reaction, x)

\* typeof x
TypeOf(x) == IF x.type \in {"promise", "object"} THEN "object" ELSE x.type

\* the results handed to delayWithResult, by call site
DelayedResults ==
    <<String("data"), String("secret data"), String("Delayed result"),
      String("file data"), String("smart file data")>>

\* delayWithResult(result, milliseconds) up to its await
DelayWithResult(W, site, milliseconds) ==
    LET W1 == NewPromise(W, Id("delayWithResult", site))
        W2 == Delay(W1, Id("delayWithResult.delay", site), milliseconds)
    IN  WThen(W2, Id("delayWithResult.delay", site), Reaction("delayWithResult", site, 0))

\* delayWithResult after its await: return result
DelayWithResultReturns(n) ==
    /\ IsJob(n, "delayWithResult")
    /\ LET site == microtasks[n].reaction.call
       IN  Commit(WSettle(Taken(n), Id("delayWithResult", site), "fulfilled", DelayedResults[site]))

\* a retrieve that returns what functor() returned without awaiting it
RetrieveWithoutAwait(W, site, x) ==
    WSettle(NewPromise(W, Id("retrieve", site)), Id("retrieve", site), "fulfilled", x)

\* retrieve(functor) up to its await, x being what functor() returned
Retrieve(W, site, x) ==
    Await(NewPromise(W, Id("retrieve", site)), x, Reaction("retrieve", site, 0))

\* retrieve after its await: returns the value, or throws what await threw
RetrieveReturns(n) ==
    /\ IsJob(n, "retrieve")
    /\ LET job == microtasks[n]
       IN  Commit(WSettle(Taken(n), Id("retrieve", job.reaction.call), job.state, job.value))

\* myAsyncFunction(): return 'return value'
MyAsyncFunction(W, site) ==
    WSettle(NewPromise(W, Id("myAsyncFunction", site)), Id("myAsyncFunction", site),
            "fulfilled", String("return value"))

\* the script from `await delay(2000)` to `await delayedResultPromise`
AfterDelay(W) ==
    LET W1 == LogSpacer(LogTimestamped(W, "main", String("Finished waiting.")))
        W2 == DelayWithResult(W1, 1, 1000)
    IN  WThen(W2, Id("delayWithResult", 1), Reaction("main", 5, 0))

\* ... to `await delayWithResult('secret data', 1000)`
AfterDelayedResult(W, delayedResult) ==
    LET W1 == [W EXCEPT !.prog.delayedResult = delayedResult]
        W2 == DelayWithResult(W1, 2, 1000)
    IN  WThen(W2, Id("delayWithResult", 2), Reaction("main", 6, 0))

\* ... to `await 'constant string'`
AfterDelayedResultDirectly(W, delayedResultDirectly) ==
    LET W1 == LogTimestamped(W, "main", W.prog.delayedResult)
        W2 == LogTimestamped(W1, "main", delayedResultDirectly)
        W3 == LogTimestamped(W2, "main", String(TypeOf(PromiseRef(Id("delayWithResult", 1)))))
    IN  Await(W3, String("constant string"), Reaction("main", 7, 0))

\* ... to `await retrieve(() => 'Immediate result')`
AfterImmediateResult(W, immediateResult) ==
    LET W1 == LogTimestamped(W, "main", immediateResult)
        W2 == Retrieve(W1, 1, String("Immediate result"))
    IN  WThen(W2, Id("retrieve", 1), Reaction("main", 8, 0))

\* ... to `await retrieve(() => delayWithResult('Delayed result', 1000))`
AfterRetrieveImmediate(W, value) ==
    LET W1 == LogTimestamped(W, "main", value)
        W2 == DelayWithResult(W1, 3, 1000)
        W3 == Retrieve(W2, 2, PromiseRef(Id("delayWithResult", 3)))
    IN  WThen(W3, Id("retrieve", 2), Reaction("main", 9, 0))

\* ... to `await myAsyncFunction()`
AfterRetrieveDelayed(W, value) ==
    LET W1 == LogSpacer(LogTimestamped(W, "main", value))
        W2 == MyAsyncFunction(W1, 1)
        W3 == LogTimestamped(W2, "main", String(TypeOf(PromiseRef(Id("myAsyncFunction", 1)))))
        W4 == MyAsyncFunction(W3, 2)
    IN  Await(W4, PromiseRef(Id("myAsyncFunction", 2)), Reaction("main", 10, 0))

\* a loop that ends one number early
PrintNumbersAsyncIterationShort(W, i) ==
    IF i < 4
    THEN LET W1 == Delay(W, Id("printNumbersAsync.delay", i), printNumbersDelay)
         IN  WThen(W1, Id("printNumbersAsync.delay", i), Reaction("printNumbersAsync", i, 0))
    ELSE WSettle(W, Id("printNumbersAsync", 0), "fulfilled", Undefined)

\* one iteration of printNumbersAsync up to `await delay(printNumbersDelay)`
PrintNumbersAsyncIteration(W, i) ==
    IF i < 5
    THEN LET W1 == Delay(W, Id("printNumbersAsync.delay", i), printNumbersDelay)
         IN  WThen(W1, Id("printNumbersAsync.delay", i), Reaction("printNumbersAsync", i, 0))
    ELSE WSettle(W, Id("printNumbersAsync", 0), "fulfilled", Undefined)

\* printNumbersAsync after its await: log(i + 1); ++i
PrintNumbersAsyncResumes(n) ==
    /\ IsJob(n, "printNumbersAsync")
    /\ LET i == microtasks[n].reaction.call
           W1 == LogTimestamped(Taken(n), "printNumbersAsync", Number(i + 1))
       IN  Commit(PrintNumbersAsyncIteration(W1, i + 1))

\* a loop that never looks at the flag and is left at once
DownloadFileAsyncLoopSkipped(W) ==
    LET W1 == LogTimestamped(W, "downloadFileAsync", String("Download finished."))
    IN  Await(W1, PromiseRef(Id("delayWithResult", 4)),
              Reaction("downloadFileAsync.return", 0, 0))

\* while (!downloadFinished) { log('Downloading...'); await delay(1000); }
\* and, after the loop, up to `return await downloadPromise`
DownloadFileAsyncLoop(W) ==
    IF ~W.prog.asyncDownloadFinished
    THEN LET r == Cardinality({e \in DOMAIN W.heap : e[1] = "downloadFileAsync.delay"})
             W1 == LogTimestamped(W, "downloadFileAsync", String("Downloading..."))
             W2 == Delay(W1, Id("downloadFileAsync.delay", r), 1000)
         IN  WThen(W2, Id("downloadFileAsync.delay", r), Reaction("downloadFileAsync", r, 0))
    ELSE LET W1 == LogTimestamped(W, "downloadFileAsync", String("Download finished."))
         IN  Await(W1, PromiseRef(Id("delayWithResult", 4)),
                   Reaction("downloadFileAsync.return", 0, 0))

\* the flag starts out set
DownloadFileAsyncFlagSet(W) ==
    LET W1 == NewPromise(W, Id("downloadFileAsync", 0))
        W2 == LogTimestamped(W1, "downloadFileAsync", String("Download started."))
        W3 == DelayWithResult(W2, 4, 3000)
        W4 == [W3 EXCEPT !.prog.asyncDownloadFinished = TRUE]
        W5 == WThen(W4, Id("delayWithResult", 4), Reaction("downloadFinished", 0, 0))
    IN  DownloadFileAsyncLoop(W5)

\* downloadFileAsync() up to its first await
DownloadFileAsync(W) ==
    LET W1 == NewPromise(W, Id("downloadFileAsync", 0))
        W2 == LogTimestamped(W1, "downloadFileAsync", String("Download started."))
        W3 == DelayWithResult(W2, 4, 3000)
        W4 == [W3 EXCEPT !.prog.asyncDownloadFinished = FALSE]
        W5 == WThen(W4, Id("delayWithResult", 4), Reaction("downloadFinished", 0, 0))
    IN  DownloadFileAsyncLoop(W5)

\* downloadPromise.then(() => downloadFinished = true)
DownloadFinishedCallback(n) ==
    /\ IsJob(n, "downloadFinished")
    /\ Commit([Taken(n) EXCEPT !.prog.asyncDownloadFinished = TRUE])

\* downloadFileAsync after `await delay(1000)`
DownloadFileAsyncResumes(n) ==
    /\ IsJob(n, "downloadFileAsync")
    /\ Commit(DownloadFileAsyncLoop(Taken(n)))

\* downloadFileAsync after `await downloadPromise`: returns the value
DownloadFileAsyncReturns(n) ==
    /\ IsJob(n, "downloadFileAsync.return")
    /\ LET job == microtasks[n]
       IN  Commit(WSettle(Taken(n), Id("downloadFileAsync", 0), job.state, job.value))

\* a loop that races the delay against itself
SmartPromiseArrayWithoutDownload(c) ==
    <<Id("downloadFileAsyncSmart.delay", c), Id("downloadFileAsyncSmart.delay", c)>>

\* the arguments of the c-th properRace(downloadPromise, delay(1000))
SmartPromiseArray(c) == <<Id("delayWithResult", 5), Id("downloadFileAsyncSmart.delay", c)>>

\* await properRace(downloadPromise, delay(1000)): the c-th evaluation of the
\* loop condition up to its await
SmartRace(W, c) ==
    LET W1 == Delay(W, Id("downloadFileAsyncSmart.delay", c), 1000)
        W2 == [W1 EXCEPT !.heap = FreshRace(c) @@ @]
        W3 == OnMachine(W2, ProperRace(Machine(W2.heap, W2.queue), c, SmartPromiseArray(c)))
    IN  WThen(W3, ReturnedId(c), Reaction("downloadFileAsyncSmart", c, 0))

\* the loop runs while the race was won by downloadPromise
RaceWonBy(outcome, promise) == outcome.v.promise = PromiseRef(promise)

\* (...).promise !== downloadPromise
RaceNotWonBy(outcome, promise) == outcome.v.promise # PromiseRef(promise)

\* downloadFileAsyncSmart() up to its first await
DownloadFileAsyncSmart(W) ==
    LET W1 == NewPromise(W, Id("downloadFileAsyncSmart", 0))
        W2 == LogTimestamped(W1, "downloadFileAsyncSmart", String("Download started."))
        W3 == DelayWithResult(W2, 5, 3000)
    IN  SmartRace(W3, 1)

\* properRace inside downloadFileAsyncSmart resumes after its await
ProperRaceResumes(n) ==
    /\ prog.script = "demo"
    /\ IsJob(n, "await")
    /\ LET job == microtasks[n]
           c == job.reaction.call
           M == Resume(Machine(heap, RemoveAt(microtasks, n)), c,
                       SmartPromiseArray(c), job.state, job.value)
       IN  Commit(OnMachine(World, M))

\* downloadFileAsyncSmart after `await properRace(..)`: the loop condition,
\* then the loop body or the code after the loop up to `await downloadPromise`
DownloadFileAsyncSmartResumes(n) ==
    /\ IsJob(n, "downloadFileAsyncSmart")
    /\ LET job == microtasks[n]
           c == job.reaction.call
       IN  IF RaceNotWonBy(job.value, Id("delayWithResult", 5))
           THEN Commit(SmartRace(LogTimestamped(Taken(n), "downloadFileAsyncSmart",
                                                String("Downloading...")), c + 1))
           ELSE Commit(Await(LogTimestamped(Taken(n), "downloadFileAsyncSmart",
                                            String("Download finished.")),
                             PromiseRef(Id("delayWithResult", 5)),
                             Reaction("downloadFileAsyncSmart.return", 0, 0)))

\* downloadFileAsyncSmart after `await downloadPromise`: returns the value
DownloadFileAsyncSmartReturns(n) ==
    /\ IsJob(n, "downloadFileAsyncSmart.return")
    /\ LET job == microtasks[n]
       IN  Commit(WSettle(Taken(n), Id("downloadFileAsyncSmart", 0), job.state, job.value))

\* the script from `await myAsyncFunction()` to `await printNumbersAsync()`
AfterMyAsyncFunction(W, value) ==
    LET W1 == LogSpacer(LogTimestamped(W, "main", String(TypeOf(value))))
        W2 == PrintNumbersAsyncIteration(NewPromise(W1, Id("printNumbersAsync", 0)), 0)
    IN  WThen(W2, Id("printNumbersAsync", 0), Reaction("main", 11, 0))

\* ... to `await downloadFileAsync()`
AfterPrintNumbersAsync(W) ==
    WThen(DownloadFileAsync(LogSpacer(W)), Id("downloadFileAsync", 0), Reaction("main", 12, 0))

\* ... to `await downloadFileAsyncSmart()`
AfterDownloadFileAsync(W, value) ==
    LET W1 == LogSpacer(LogTimestamped(W, "main", value))
    IN  WThen(DownloadFileAsyncSmart(W1), Id("downloadFileAsyncSmart", 0), Reaction("main", 13, 0))

\* ... to the end of the script
AfterDownloadFileAsyncSmart(W, value) == LogTimestamped(W, "main", value)

\* the script resumes after its await number `await` with the awaited value
Main(W, await, value) ==
    CASE await = 1 -> AfterPrintNumbers(W)
      [] await = 2 -> AfterPrintNumbersRecursively(W)
      [] await = 3 -> AfterDownloadFile(W)
      [] await = 4 -> AfterDelay(W)
      [] await = 5 -> AfterDelayedResult(W, value)
      [] await = 6 -> AfterDelayedResultDirectly(W, value)
      [] await = 7 -> AfterImmediateResult(W, value)
      [] await = 8 -> AfterRetrieveImmediate(W, value)
      [] await = 9 -> AfterRetrieveDelayed(W, value)
      [] await = 10 -> AfterMyAsyncFunction(W, value)
      [] await = 11 -> AfterPrintNumbersAsync(W)
      [] await = 12 -> AfterDownloadFileAsync(W, value)
      [] await = 13 -> AfterDownloadFileAsyncSmart(W, value)

MainResumes(n) ==
    /\ IsJob(n, "main")
    /\ LET job == microtasks[n]
           W == Main(Taken(n), job.reaction.call, job.value)
       IN  Commit([W EXCEPT !.prog.main = job.reaction.call + 1])

DemoNext ==
    \/ MainStarts
    \/ \E k \in 1..Len(timers) : TimerFires(k)
    \/ \E n \in 1..Len(microtasks) : MainResumes(n)
    \/ \E n \in 1..Len(microtasks) : PrintNumbersCallback(n)
    \/ \E n \in 1..Len(microtasks) : ThenableJob(n)
    \/ \E n \in 1..Len(microtasks) : ForwardJob(n)
    \/ \E n \in 1..Len(microtasks) : PrintNumbersRecursionCallback(n)
    \/ \E n \in 1..Len(microtasks) : DownloadFileCallback(n)
    \/ \E n \in 1..Len(microtasks) : ReportProgressCallback(n)
    \/ \E n \in 1..Len(microtasks) : DelayWithResultReturns(n)
    \/ \E n \in 1..Len(microtasks) : RetrieveReturns(n)
    \/ \E n \in 1..Len(microtasks) : PrintNumbersAsyncResumes(n)
    \/ \E n \in 1..Len(microtasks) : DownloadFinishedCallback(n)
    \/ \E n \in 1..Len(microtasks) : DownloadFileAsyncResumes(n)
    \/ \E n \in 1..Len(microtasks) : DownloadFileAsyncReturns(n)
    \/ \E n \in 1..Len(microtasks) : RunIndexJob(n)
    \/ \E n \in 1..Len(microtasks) : RunRaceJob(n)
    \/ \E n \in 1..Len(microtasks) : ProperRaceResumes(n)
    \/ \E n \in 1..Len(microtasks) : DownloadFileAsyncSmartResumes(n)
    \/ \E n \in 1..Len(microtasks) : DownloadFileAsyncSmartReturns(n)

DemoSpec == DemoInit /\ [][DemoNext]_vars

\* something is left for the event loop to run
Busy == prog.main = 0 \/ microtasks # <<>> \/ timers # <<>>

\* the event loop keeps running jobs and timers while there are any: weak
\* fairness of DemoNext, which is enabled exactly when Busy holds
FairDemoSpec == DemoSpec /\ ([]<>(~Busy) \/ []<><<DemoNext>>_vars)

\* ------------------------------------------- retrieve over any functor
\* what a functor may return: a value, or the promise of an operation
FunctorResults == {ResultOf(i) : i \in Ops} \cup {PromiseRef(OpId(i)) : i \in Ops}

RetrieveInit ==
    /\ fate \in {f \in [Ops -> UNION {Fates(i) : i \in Ops}] : \A i \in Ops : f[i] \in Fates(i)}
    /\ heap = [id \in {OpId(i) : i \in Ops} |-> Pending]
    /\ microtasks = <<>>
    /\ calls = [c \in 1..MaxCalls |-> [pc |-> "idle", promiseArray |-> <<>>]]
    /\ order = <<>>
    /\ snap = [c \in 1..MaxCalls |-> [atCall |-> {}, atReturn |-> {}]]
    /\ now = 0
    /\ timers = <<>>
    /\ log = <<>>
    /\ prog = [script |-> "retrieve", functor |-> <<>>]

\* retrieve(functor), x being what functor() returns
RetrieveCall(x) ==
    /\ prog.script = "retrieve"
    /\ Len(prog.functor) < MaxCalls
    /\ LET site == Len(prog.functor) + 1
       IN  Commit(Retrieve([World EXCEPT !.prog.functor = Append(@, x)], site, x))

RetrieveNext ==
    \/ \E i \in Ops : SettleOp(i)
    \/ \E x \in FunctorResults : RetrieveCall(x)
    \/ \E n \in 1..Len(microtasks) : RetrieveReturns(n)

RetrieveSpec == RetrieveInit /\ [][RetrieveNext]_vars

\* ------------------------------------------------------- the calculators
\* a number: an integer base, and once Math.sin was applied the operations
\* applied since, which are kept symbolically
Integer(n) == [base |-> n, over |-> <<>>]

\* value += operand
Plus(value, operand) ==
    IF value.over = <<>> THEN Integer(value.base + operand)
    ELSE IF operand = 0 THEN value
    ELSE [value EXCEPT !.over = Append(@, [op |-> "+", operand |-> operand])]

\* value *= operand
Times(value, operand) ==
    IF value.over = <<>> THEN Integer(value.base * operand)
    ELSE IF operand = 1 THEN value
    ELSE [value EXCEPT !.over = Append(@, [op |-> "*", operand |-> operand])]

\* Math.sin(value): sin(0) is 0, any other sine is no integer
MathSin(value) ==
    IF value = Integer(0) THEN value
    ELSE [value EXCEPT !.over = Append(@, [op |-> "sin", operand |-> 0])]

\* the four classes; object i of the script is an instance of Classes[i]
Classes ==
    <<"BasicCalculator", "ScientificCalculator",
      "PolyBasicCalculator", "PolyScientificCalculator">>

Scientific == {"ScientificCalculator", "PolyScientificCalculator"}

Polymorphic == {"PolyBasicCalculator", "PolyScientificCalculator"}

\* what a method leaves behind: the objects and the reference it returns
MethodResult(objects, result) == [objects |-> objects, result |-> result]

\* currentValue()
CurrentValue(objects, this) == objects[this].value

\* an add that returns a new instance: return new PolyBasicCalculator(this.value)
AddReturnsNew(objects, this, operand) ==
    LET value == Plus(objects[this].value, operand)
    IN  MethodResult(Append([objects EXCEPT ![this].value = value],
                         [class |-> objects[this].class, value |-> value]),
                  Len(objects) + 1)

\* add(operand) of BasicCalculator and of PolyBasicCalculator
Add(objects, this, operand) ==
    MethodResult([objects EXCEPT ![this].value = Plus(@, operand)], this)

\* BasicCalculator.multiply: this.value *= operand;
\* PolyBasicCalculator.multiply: this.value += operand
Multiply(objects, this, operand) ==
    IF objects[this].class \in Polymorphic
    THEN MethodResult([objects EXCEPT ![this].value = Plus(@, operand)], this)
    ELSE MethodResult([objects EXCEPT ![this].value = Times(@, operand)], this)

\* sin() of ScientificCalculator and of PolyScientificCalculator
Sin(objects, this) ==
    MethodResult([objects EXCEPT ![this].value = MathSin(@)], this)

Operands == (0 - MaxOperand)..MaxOperand

\* new C(start) for each of the four classes, with the same start value
CalculatorInit ==
    /\ fate = [i \in Ops |-> [state |-> "fulfilled", value |-> Undefined]]
    /\ heap = [id \in {} |-> Pending]
    /\ microtasks = <<>>
    /\ calls = [c \in 1..MaxCalls |-> [pc |-> "idle", promiseArray |-> <<>>]]
    /\ order = <<>>
    /\ snap = [c \in 1..MaxCalls |-> [atCall |-> {}, atReturn |-> {}]]
    /\ now = 0
    /\ timers = <<>>
    /\ log = <<>>
    /\ \E start \in Operands :
          prog = [script |-> "calculators",
                  objects |-> [i \in 1..4 |-> [class |-> Classes[i], value |-> Integer(start)]],
                  chain |-> [i \in 1..4 |-> i],
                  steps |-> 0]

\* this.method(operand): dispatch on the method's name
Invoke(objects, this, method, operand) ==
    CASE method = "add" -> Add(objects, this, operand)
      [] method = "multiply" -> Multiply(objects, this, operand)
      [] method = "sin" -> Sin(objects, this)

\* the next call of every chain in `chains` is made, on the reference the
\* chain's last call returned
RECURSIVE Chained(_, _, _, _, _)
Chained(objects, chain, chains, method, operand) ==
    IF chains = {} THEN [objects |-> objects, chain |-> chain]
    ELSE LET i == CHOOSE j \in chains : TRUE
             r == Invoke(objects, chain[i], method, operand)
         IN  Chained(r.objects, [chain EXCEPT ![i] = r.result], chains \ {i}, method, operand)

CalculatorStep(chains, method, operand) ==
    /\ prog.script = "calculators"
    /\ prog.steps < MaxSteps
    /\ LET r == Chained(prog.objects, prog.chain, chains, method, operand)
       IN  prog' = [prog EXCEPT !.objects = r.objects, !.chain = r.chain, !.steps = @ + 1]
    /\ UNCHANGED <<fate, heap, microtasks, calls, order, snap, now, timers, log>>

\* .add(operand) on every calculator
CallAdd(operand) == CalculatorStep(1..4, "add", operand)

\* .multiply(operand) on every calculator
CallMultiply(operand) == CalculatorStep(1..4, "multiply", operand)

\* .sin() on every scientific calculator
CallSin == CalculatorStep({i \in 1..4 : Classes[i] \in Scientific}, "sin", 0)

CalculatorNext ==
    \/ \E operand \in Operands : CallAdd(operand)
    \/ \E operand \in Operands : CallMultiply(operand)
    \/ CallSin

CalculatorSpec == CalculatorInit /\ [][CalculatorNext]_vars

\* --------------------------------------------------------------- oneOf
\* oneOf is declared for two to five arguments
Arities == 2..5

\* the values the arguments are taken from
OptionValues == {Undefined, String("Worker"), Number(1)}

\* numbers are held as multiples of 2^-RandomBits
Scale == 2 ^ RandomBits

\* Math.random(): a multiple of 2^-RandomBits in [0, 1)
Randoms == 0..(Scale - 1)

\* the number of bits of a natural number
RECURSIVE BitLength(_)
BitLength(x) == IF x = 0 THEN 0 ELSE 1 + BitLength(x \div 2)

\* a product as the nearest number with RandomBits significant bits, ties
\* to the even one
Rounded(x) ==
    IF BitLength(x) <= RandomBits THEN x
    ELSE LET unit == 2 ^ (BitLength(x) - RandomBits)
             q == x \div unit
             rest == x % unit
             up == IF 2 * rest > unit \/ (2 * rest = unit /\ q % 2 = 1) THEN 1 ELSE 0
         IN  (q + up) * unit

\* Math.ceil(x)
MathCeil(x) == (x + Scale - 1) \div Scale

\* Math.floor(x)
MathFloor(x) == x \div Scale

\* options[index]: undefined outside the array
Lookup(options, index) ==
    IF index + 1 \in DOMAIN options THEN options[index + 1] ELSE Undefined

OneOfInit ==
    /\ fate = [i \in Ops |-> [state |-> "fulfilled", value |-> Undefined]]
    /\ heap = [id \in {} |-> Pending]
    /\ microtasks = <<>>
    /\ calls = [c \in 1..MaxCalls |-> [pc |-> "idle", promiseArray |-> <<>>]]
    /\ order = <<>>
    /\ snap = [c \in 1..MaxCalls |-> [atCall |-> {}, atReturn |-> {}]]
    /\ now = 0
    /\ timers = <<>>
    /\ log = <<>>
    /\ \E length \in Arities : \E options \in [1..length -> OptionValues] :
          prog = [script |-> "oneOf", options |-> options, called |-> FALSE,
                  index |-> 0, result |-> Undefined]

\* oneOf(...options), random being what Math.random() returns
OneOf(random) ==
    /\ prog.script = "oneOf"
    /\ ~prog.called
    /\ LET index == MathFloor(Rounded(random * Len(prog.options)))
       IN  prog' = [prog EXCEPT !.called = TRUE, !.index = index,
                                !.result = Lookup(prog.options, index)]
    /\ UNCHANGED <<fate, heap, microtasks, calls, order, snap, now, timers, log>>

OneOfNext == \E random \in Randoms : OneOf(random)

OneOfSpec == OneOfInit /\ [][OneOfNext]_vars

\* ---------------------------------------------------------------- properties
Calls == 1..MaxCalls

Called(c) == calls[c].pc # "idle"

\* the operation passed at argument position k (0 = first, 1 = second)
Arg(c, k) == calls[c].promiseArray[k + 1][2]

Returned(c) == heap[ReturnedId(c)]

Settled(id) == heap[id].state # "pending"

\* position of an operation in the settlement order, past its end when the
\* operation has not settled
SettleTime(i) ==
    IF \E n \in 1..Len(order) : order[n] = i
    THEN CHOOSE n \in 1..Len(order) : order[n] = i
    ELSE Len(order) + 1

\* a has settled, and b has not or did so later
SettledStrictlyBefore(a, b) == SettleTime(a) <= Len(order) /\ SettleTime(a) < SettleTime(b)

PendingAtCall(c, i) == i \notin snap[c].atCall

\* i settled after call c had returned
SettledAfterReturn(c, i) == Settled(OpId(i)) /\ i \notin snap[c].atReturn

\* C1 as stated: in either argument position, if A settles strictly before B
\* then the outcome properRace resolves to identifies A
C1_FirstSettledWins_Original ==
    \A c \in Calls : \A k \in 0..1 :
        (/\ calls[c].pc = "done"
         /\ Returned(c).state = "fulfilled"
         /\ SettledStrictlyBefore(Arg(c, k), Arg(c, 1 - k)))
        => Returned(c).value = Outcome(OpId(Arg(c, k)))

\* C1 amended: in either argument position, if A settles strictly before B
\* and B is still pending when properRace is called, then the outcome
\* properRace resolves to identifies A
C1_FirstSettledWins ==
    \A c \in Calls : \A k \in 0..1 :
        (/\ calls[c].pc = "done"
         /\ Returned(c).state = "fulfilled"
         /\ SettledStrictlyBefore(Arg(c, k), Arg(c, 1 - k))
         /\ PendingAtCall(c, Arg(c, 1 - k)))
        => Returned(c).value = Outcome(OpId(Arg(c, k)))

\* a race won by its second argument, which settled while the race was
\* waiting; the first argument settled later with a value of another type
C1_Witness ==
    \E c \in Calls :
        /\ calls[c].pc = "done"
        /\ Returned(c).value = Outcome(OpId(Arg(c, 1)))
        /\ PendingAtCall(c, Arg(c, 1))
        /\ SettledStrictlyBefore(Arg(c, 1), Arg(c, 0))
        /\ Settled(OpId(Arg(c, 0)))
        /\ heap[OpId(Arg(c, 0))].value.type # heap[OpId(Arg(c, 1))].value.type

\* C2 as stated: when A fails before B settles, the race resolves to an
\* outcome that identifies A, and A observed through it yields its failure
C2_FailureIdentifiesLoser ==
    \A c \in Calls : \A k \in 0..1 :
        (/\ calls[c].pc = "done"
         /\ fate[Arg(c, k)].state = "rejected"
         /\ SettledStrictlyBefore(Arg(c, k), Arg(c, 1 - k)))
        => /\ Returned(c).state = "fulfilled"
           /\ Returned(c).value = Outcome(OpId(Arg(c, k)))
           /\ heap[OpId(Arg(c, k))].state = "rejected"
           /\ heap[OpId(Arg(c, k))].value = fate[Arg(c, k)].value

\* C3: whenever properRace resolves, its outcome references one of the two
\* input operations themselves (first or second), not a derived promise and
\* not a value
C3_OutcomeIsAnInput ==
    \A c \in Calls :
        (Called(c) /\ Returned(c).state = "fulfilled")
        => Returned(c).value \in {Outcome(calls[c].promiseArray[1]),
                                  Outcome(calls[c].promiseArray[2])}

\* a resolved race whose outcome references its second argument
C3_Witness ==
    \E c \in Calls :
        /\ Called(c)
        /\ Returned(c).state = "fulfilled"
        /\ Returned(c).value.v.promise = PromiseRef(calls[c].promiseArray[2])

\* C4: once the race (Promise.race's promise and properRace's own promise)
\* has settled, no later step changes its state or its outcome
C4_SettlesOnce ==
    [][\A c \in Calls : \A id \in {RacePromiseId(c), ReturnedId(c)} :
          (Called(c) /\ heap[id].state # "pending")
          => (heap'[id].state = heap[id].state /\ heap'[id].value = heap[id].value)]_vars

\* the other input settled after the race had already returned
C4_Witness ==
    \E c \in Calls : \E k \in 0..1 :
        /\ calls[c].pc = "done"
        /\ SettledAfterReturn(c, Arg(c, k))

\* C5: the state and value of an input operation change only when the
\* operation itself completes, and then to exactly what it produces on its
\* own; no step of properRace settles, cancels or alters an input
C5_InputsUntouched ==
    [][\A i \in Ops :
          (heap'[OpId(i)].state # heap[OpId(i)].state
             \/ heap'[OpId(i)].value # heap[OpId(i)].value)
          => (/\ heap[OpId(i)].state = "pending"
              /\ heap'[OpId(i)].state = fate[i].state
              /\ heap'[OpId(i)].value = fate[i].value)]_vars

\* the race returned the second argument, which holds its own value, and the
\* losing first argument fulfilled afterwards with its own value
C5_Witness ==
    \E c \in Calls :
        /\ calls[c].pc = "done"
        /\ Returned(c).value = Outcome(OpId(Arg(c, 1)))
        /\ heap[OpId(Arg(c, 1))].value = Val("number", 42)
        /\ SettledAfterReturn(c, Arg(c, 0))
        /\ heap[OpId(Arg(c, 0))].state = "fulfilled"
        /\ heap[OpId(Arg(c, 0))].value = Val("string", "slow")

\* the index observer of a failed input fails with the same reason
ObserverFailsWithInput ==
    \A c \in Calls : \A k \in 0..1 :
        (/\ Called(c)
         /\ heap[OpId(Arg(c, k))].state = "rejected"
         /\ Settled(IndexPromiseId(c, k)))
        => /\ heap[IndexPromiseId(c, k)].state = "rejected"
           /\ heap[IndexPromiseId(c, k)].value = heap[OpId(Arg(c, k))].value

\* C6 as stated: the observer of a failed input fails, and a failure that is
\* the first settlement among the inputs is the failure of properRace
C6_FailurePropagates_Original ==
    /\ ObserverFailsWithInput
    /\ \A c \in Calls : \A k \in 0..1 :
        (/\ calls[c].pc = "done"
         /\ fate[Arg(c, k)].state = "rejected"
         /\ SettledStrictlyBefore(Arg(c, k), Arg(c, 1 - k)))
        => /\ Returned(c).state = "rejected"
           /\ Returned(c).value = fate[Arg(c, k)].value

\* C6 amended: the observer of a failed input fails, and a failure that is
\* the first settlement among the inputs, the other input being still
\* pending when properRace is called, is the failure of properRace
C6_FailurePropagates ==
    /\ ObserverFailsWithInput
    /\ \A c \in Calls : \A k \in 0..1 :
        (/\ calls[c].pc = "done"
         /\ fate[Arg(c, k)].state = "rejected"
         /\ SettledStrictlyBefore(Arg(c, k), Arg(c, 1 - k))
         /\ PendingAtCall(c, Arg(c, 1 - k)))
        => /\ Returned(c).state = "rejected"
           /\ Returned(c).value = fate[Arg(c, k)].value

\* properRace rejected with the reason of an input that failed while the
\* other input was still pending
C6_Witness ==
    \E c \in Calls : \E k \in 0..1 :
        /\ calls[c].pc = "done"
        /\ Returned(c).state = "rejected"
        /\ Returned(c).value = Val("string", "boom")
        /\ heap[IndexPromiseId(c, k)].state = "rejected"
        /\ heap[OpId(Arg(c, k))].state = "rejected"
        /\ ~Settled(OpId(Arg(c, 1 - k)))

\* C7 as stated: for any two supplied operations, however they settle,
\* properRace's returned promise does not reject
C7_NeverRejects ==
    \A c \in Calls : Called(c) => Returned(c).state # "rejected"

\* C8: whenever properRace's returned promise has settled, at least one of
\* its two input operations has already settled
C8_NotBeforeAnInput ==
    \A c \in Calls :
        (Called(c) /\ Settled(ReturnedId(c)))
        => \E k \in 0..1 : Settled(OpId(Arg(c, k)))

\* properRace has returned with exactly one input settled
C8_Witness ==
    \E c \in Calls : \E k \in 0..1 :
        /\ Called(c)
        /\ Settled(ReturnedId(c))
        /\ Settled(OpId(Arg(c, k)))
        /\ ~Settled(OpId(Arg(c, 1 - k)))

\* call c has an input that has settled and has not returned yet
Waiting(c) ==
    calls[c].pc = "awaiting" /\ \E k \in 0..1 : Settled(OpId(Arg(c, k)))

\* C9: with microtasks run fairly, a call of properRace one of whose inputs
\* has settled eventually settles its returned promise, whether or not the
\* other input ever settles.  A waiting call stays waiting until it returns
\* (an input never goes back to pending), so this is the same as: whenever a
\* call is waiting, a state follows in which no call is
C9_EventuallySettles ==
    (\E c \in Calls : Waiting(c)) ~> (\A c \in Calls : ~Waiting(c))

\* every call made has returned and nothing is left to run, while an input
\* is still pending
C9_Witness ==
    /\ microtasks = <<>>
    /\ \E i \in Ops : ~Settled(OpId(i))
    /\ \E c \in Calls : calls[c].pc = "done"
    /\ \A c \in Calls : calls[c].pc # "awaiting"

BothSettledAtCall(c) == \A k \in 0..1 : Arg(c, k) \in snap[c].atCall

\* C10: two calls of properRace with the same arguments, both made after
\* both operations have settled, end the same way
C10_SettledRaceDeterministic ==
    \A c1, c2 \in Calls :
        (/\ calls[c1].pc = "done" /\ calls[c2].pc = "done"
         /\ calls[c1].promiseArray = calls[c2].promiseArray
         /\ BothSettledAtCall(c1) /\ BothSettledAtCall(c2))
        => /\ Returned(c1).state = Returned(c2).state
           /\ Returned(c1).value = Returned(c2).value

\* two finished races of the same two settled operations
C10_Witness ==
    \E c1, c2 \in Calls :
        /\ c1 # c2
        /\ calls[c1].pc = "done" /\ calls[c2].pc = "done"
        /\ calls[c1].promiseArray = calls[c2].promiseArray
        /\ BothSettledAtCall(c1) /\ BothSettledAtCall(c2)
        /\ Returned(c1).state = "fulfilled"

\* observers, raced index and returned operation of one call agree
IndexLookupAgrees(c) ==
    /\ \A k \in 0..1 :
          /\ Settled(IndexPromiseId(c, k)) => Settled(OpId(Arg(c, k)))
          /\ heap[IndexPromiseId(c, k)].state = "fulfilled"
                => heap[IndexPromiseId(c, k)].value = Val("number", k)
    /\ heap[RacePromiseId(c)].state = "fulfilled"
          => heap[RacePromiseId(c)].value.v \in {0, 1}
    /\ Returned(c).state = "fulfilled"
          => /\ heap[RacePromiseId(c)].state = "fulfilled"
             /\ Returned(c).value.v.promise =
                    PromiseRef(calls[c].promiseArray[heap[RacePromiseId(c)].value.v + 1])

\* C12 as stated: the outcome carries the winner's index together with the
\* operation and the two agree; every observer i completes after input i and
\* yields i, the raced index is 0 or 1, the operation is the input at it
C12_IndexAndOperation_Original ==
    \A c \in Calls : Called(c) =>
        /\ IndexLookupAgrees(c)
        /\ Returned(c).state = "fulfilled"
              => /\ "index" \in DOMAIN Returned(c).value.v
                 /\ Returned(c).value.v.index = heap[RacePromiseId(c)].value

\* C12 amended: the outcome carries the operation alone, in its one field
\* promise; every observer i completes after input i and yields i, the raced
\* index is 0 or 1, and the operation returned is the input at that index
C12_IndexAndOperation ==
    \A c \in Calls : Called(c) =>
        /\ IndexLookupAgrees(c)
        /\ Returned(c).state = "fulfilled" => DOMAIN Returned(c).value.v = {"promise"}

\* a race that returned its second argument after the raced index was 1,
\* with both observers fulfilled
C12_Witness ==
    \E c \in Calls :
        /\ calls[c].pc = "done"
        /\ heap[RacePromiseId(c)].value = Val("number", 1)
        /\ heap[IndexPromiseId(c, 0)].state = "fulfilled"
        /\ heap[IndexPromiseId(c, 1)].state = "fulfilled"
        /\ Returned(c).value.v.promise = PromiseRef(calls[c].promiseArray[2])

BothFulfilled(c) == \A k \in 0..1 : heap[OpId(Arg(c, k))].state = "fulfilled"

\* C13: when both inputs are already fulfilled at the call, or fulfil one
\* after the other in argument order, the outcome references the first
\* argument
C13_TieGoesToFirstArgument ==
    \A c \in Calls :
        (/\ calls[c].pc = "done"
         /\ BothFulfilled(c)
         /\ BothSettledAtCall(c) \/ SettledStrictlyBefore(Arg(c, 0), Arg(c, 1)))
        => /\ Returned(c).state = "fulfilled"
           /\ Returned(c).value = Outcome(calls[c].promiseArray[1])

\* both inputs were fulfilled at the call, the second argument earlier than
\* the first, and the race returned the first argument
C13_Witness ==
    \E c \in Calls :
        /\ calls[c].pc = "done"
        /\ BothFulfilled(c)
        /\ BothSettledAtCall(c)
        /\ SettledStrictlyBefore(Arg(c, 1), Arg(c, 0))
        /\ Returned(c).value = Outcome(calls[c].promiseArray[1])

\* the operation with zero delay, when exactly one of the two has it
ZeroDelayOp == CHOOSE i \in Ops : prog.ms[i] = 0

OneZeroDelay == Cardinality({i \in Ops : prog.ms[i] = 0}) = 1

NonZeroDelayOp == CHOOSE i \in Ops : i # ZeroDelayOp

\* C11 as stated: when one of the two raced operations has zero delay, it
\* wins the race in either argument position
C11_ZeroDelayWins_Original ==
    (prog.script = "timerRace" /\ OneZeroDelay /\ calls[1].pc = "done")
    => Returned(1).value = Outcome(OpId(ZeroDelayOp))

\* C11 amended: when one of the two raced operations has zero delay, it wins
\* the race in either argument position, provided the other operation has a
\* delay of more than 1ms or was started after it
C11_ZeroDelayWins ==
    (/\ prog.script = "timerRace" /\ OneZeroDelay /\ calls[1].pc = "done"
     /\ prog.ms[NonZeroDelayOp] > 1 \/ prog.startedFirst = ZeroDelayOp)
    => Returned(1).value = Outcome(OpId(ZeroDelayOp))

\* the zero-delay operation won as second argument although the other
\* operation was started first
C11_Witness ==
    /\ prog.script = "timerRace" /\ OneZeroDelay /\ calls[1].pc = "done"
    /\ prog.startedFirst = NonZeroDelayOp
    /\ Arg(1, 1) = ZeroDelayOp
    /\ Returned(1).value = Outcome(OpId(ZeroDelayOp))
    /\ Settled(OpId(NonZeroDelayOp))

\* ------------------------------------------------- the script's properties
Has(id) == id \in DOMAIN heap

Fulfilled(id) == Has(id) /\ heap[id].state = "fulfilled"

\* the positions of the log written by a function with a message
Lines(by, message) == {i \in 1..Len(log) : log[i].by = by /\ log[i].message = message}

\* the messages a function has logged, in order
Messages(by) ==
    LET lines == SelectSeq(log, LAMBDA e : e.by = by)
    IN  [i \in 1..Len(lines) |-> lines[i].message]

Downloading == String("Downloading...")

SmartDownload == Id("delayWithResult", 5)

\* the races downloadFileAsyncSmart has started
SmartRaces == {e[2] : e \in {id \in DOMAIN heap : id[1] = "properRace"}}

SmartRaceWonBy(c, id) ==
    /\ heap[ReturnedId(c)].state = "fulfilled"
    /\ heap[ReturnedId(c)].value = Outcome(id)

\* C14: in downloadFileAsyncSmart 'Download finished.' is logged only after
\* downloadPromise is fulfilled, every 'Downloading...' line stands for a race
\* won by the 1000ms delay, the loop exits at the first race won by
\* downloadPromise, and the result is downloadPromise's value
C14_SmartLoop ==
    Has(Id("downloadFileAsyncSmart", 0)) =>
    LET downloading == Cardinality(Lines("downloadFileAsyncSmart", Downloading))
        finished == Lines("downloadFileAsyncSmart", String("Download finished.")) # {}
    IN  /\ finished => Fulfilled(SmartDownload)
        /\ \A c \in 1..downloading :
              SmartRaceWonBy(c, Id("downloadFileAsyncSmart.delay", c))
        /\ \A c \in SmartRaces :
              /\ c <= downloading + 1
              /\ SmartRaceWonBy(c, SmartDownload) => c + 1 \notin SmartRaces
        /\ finished =>
              /\ SmartRaces = 1..(downloading + 1)
              /\ SmartRaceWonBy(downloading + 1, SmartDownload)
        /\ Fulfilled(Id("downloadFileAsyncSmart", 0)) =>
              /\ finished
              /\ heap[Id("downloadFileAsyncSmart", 0)].value = heap[SmartDownload].value
              /\ heap[SmartDownload].value = String("smart file data")

\* downloadFileAsyncSmart has returned after a loop that ran
C14_Witness ==
    /\ Fulfilled(Id("downloadFileAsyncSmart", 0))
    /\ Cardinality(Lines("downloadFileAsyncSmart", Downloading)) >= 2

\* C15: downloadFileAsyncSmart returns under a fair event loop: once
\* downloadPromise is fulfilled every race that resolves resolves to it, so
\* no further 'Downloading...' is logged and no further race is started
C15_SmartTerminates ==
    /\ Has(Id("downloadFileAsyncSmart", 0)) ~> Fulfilled(Id("downloadFileAsyncSmart", 0))
    /\ [][Fulfilled(SmartDownload) =>
            /\ \A c \in SmartRaces :
                  (heap[ReturnedId(c)].state = "pending" /\ heap'[ReturnedId(c)].state # "pending")
                  => heap'[ReturnedId(c)] = [state |-> "fulfilled", value |-> Outcome(SmartDownload),
                                             reactions |-> <<>>]
            /\ Lines("downloadFileAsyncSmart", Downloading)' = Lines("downloadFileAsyncSmart", Downloading)
            /\ SmartRaces' = SmartRaces
         ]_vars

\* the delay and the download were due together and the delay ran first: the
\* race started then was the last one
C15_Witness ==
    /\ Fulfilled(Id("downloadFileAsyncSmart", 0))
    /\ Cardinality(Lines("downloadFileAsyncSmart", Downloading)) = 3
    /\ SmartRaceWonBy(4, SmartDownload)

AsyncDownload == Id("delayWithResult", 4)

\* C16: in downloadFileAsync the flag becomes true only after downloadPromise
\* is fulfilled and never reverts, the loop exits only with the flag true, so
\* 'Download finished.' is logged only after the download completed, the loop
\* exits under a fair event loop and the function returns the download's value
C16_PollingLoop ==
    /\ [](prog.asyncDownloadFinished => Fulfilled(AsyncDownload))
    /\ [][prog.asyncDownloadFinished => prog.asyncDownloadFinished']_vars
    /\ [](Lines("downloadFileAsync", String("Download finished.")) # {}
            => prog.asyncDownloadFinished)
    /\ [][(Lines("downloadFileAsync", Downloading)' # Lines("downloadFileAsync", Downloading))
            => ~prog.asyncDownloadFinished]_vars
    /\ Has(Id("downloadFileAsync", 0))
         ~> Lines("downloadFileAsync", String("Download finished.")) # {}
    /\ Has(Id("downloadFileAsync", 0)) ~> Fulfilled(Id("downloadFileAsync", 0))
    /\ [](Fulfilled(Id("downloadFileAsync", 0)) =>
            /\ heap[Id("downloadFileAsync", 0)].value = heap[AsyncDownload].value
            /\ heap[AsyncDownload].value = String("file data"))

\* downloadFileAsync has returned after its loop ran and the flag was set
C16_Witness ==
    /\ Fulfilled(Id("downloadFileAsync", 0))
    /\ prog.asyncDownloadFinished
    /\ Cardinality(Lines("downloadFileAsync", Downloading)) >= 3

\* 'Download started.', n times 'Downloading...', 'Download finished.'
DownloadLog(n) ==
    [i \in 1..(n + 2) |-> IF i = 1 THEN String("Download started.")
                          ELSE IF i = n + 2 THEN String("Download finished.")
                          ELSE Downloading]

BothReturned ==
    Fulfilled(Id("downloadFileAsync", 0)) /\ Fulfilled(Id("downloadFileAsyncSmart", 0))

\* C17 as stated: downloadFileAsync and downloadFileAsyncSmart log the same
\* sequence of messages, with the same number of 'Downloading...' lines, and
\* both return the download's value
C17_SameLog_Original ==
    BothReturned =>
        /\ Messages("downloadFileAsync") = Messages("downloadFileAsyncSmart")
        /\ heap[Id("downloadFileAsync", 0)].value = heap[AsyncDownload].value
        /\ heap[Id("downloadFileAsyncSmart", 0)].value = heap[SmartDownload].value

\* C17 amended: both log 'Download started.', then only 'Downloading...'
\* lines, then 'Download finished.', and each returns the value of its own
\* download; downloadFileAsync logs its first 'Downloading...' before it
\* waits at all, so it logs at least one such line and at least as many as
\* downloadFileAsyncSmart
C17_SameLog ==
    BothReturned =>
        LET polled == Cardinality(Lines("downloadFileAsync", Downloading))
            raced == Cardinality(Lines("downloadFileAsyncSmart", Downloading))
        IN  /\ Messages("downloadFileAsync") = DownloadLog(polled)
            /\ Messages("downloadFileAsyncSmart") = DownloadLog(raced)
            /\ polled >= 1
            /\ polled >= raced
            /\ heap[Id("downloadFileAsync", 0)].value = heap[AsyncDownload].value
            /\ heap[Id("downloadFileAsyncSmart", 0)].value = heap[SmartDownload].value

\* both have returned, the polling version with more lines than the other
C17_Witness ==
    /\ BothReturned
    /\ Cardinality(Lines("downloadFileAsync", Downloading))
         > Cardinality(Lines("downloadFileAsyncSmart", Downloading))
    /\ Lines("downloadFileAsyncSmart", Downloading) # {}

\* the timers reportProgress has scheduled so far
ReportDelays == {id \in DOMAIN heap : id[1] = "reportProgress.delay"}

StillDownloading == SelectSeq(log, LAMBDA e : e.by = "reportProgress"
                                              /\ e.message = String("Still downloading..."))

StopReporting == Lines("reportProgress", String("Download finished, stop reporting."))

\* the position of the one line of the log with this message
LineOf(by, message) == CHOOSE i \in Lines(by, message) : TRUE

\* C18: reportProgress reschedules itself every 1000ms only while
\* downloadFinished is false; once the flag is set it logs 'Download finished,
\* stop reporting.' exactly once, after 'Download finished.', and schedules no
\* further timer; that last tick runs after the script has resumed from
\* `await downloadFile`, behind the first output of the next section
C18_ReportProgress ==
    /\ [][(ReportDelays' # ReportDelays) =>
            /\ ~prog.downloadFinished
            /\ \E k \in 1..Len(timers') :
                  /\ timers'[k].id \in ReportDelays' \ ReportDelays
                  /\ timers'[k].due = now + 1000]_vars
    /\ [](\A i \in 1..Len(StillDownloading) :
            /\ StillDownloading[i].timestamp = StillDownloading[1].timestamp + 1000 * (i - 1)
            /\ Fulfilled(Id("downloadFile", 0)) =>
                  StillDownloading[i].timestamp <= log[LineOf("downloadFile", String("Download finished."))].timestamp)
    /\ [](Cardinality(StopReporting) <= 1)
    /\ [](prog.main >= 5 => Cardinality(StopReporting) = 1)
    /\ [](StopReporting # {} =>
            /\ prog.downloadFinished
            /\ \A i \in StopReporting :
                  /\ i > LineOf("downloadFile", String("Download finished."))
                  /\ i > LineOf("main", String("Starting to wait..."))
                  /\ prog.main >= 4
            /\ \A k \in 1..Len(timers) : timers[k].id \notin ReportDelays)
    /\ [][StopReporting # {} => ReportDelays' = ReportDelays]_vars

\* the last tick of reportProgress has run while the script waits in
\* `await delay(2000)` of the next section
C18_Witness ==
    /\ StopReporting # {}
    /\ prog.main = 4
    /\ Len(StillDownloading) >= 3

\* the three number-printing variants: the name they log under, their
\* promise, and the name of their delays
Variants ==
    {[by |-> "printNumbers", promise |-> Id("printNumbers", 1), delay |-> "printNumbers.delay"],
     [by |-> "printNumbersRecursively", promise |-> Id("printNumbersRecursively", 0),
      delay |-> "printNumbersRecursion.delay"],
     [by |-> "printNumbersAsync", promise |-> Id("printNumbersAsync", 0),
      delay |-> "printNumbersAsync.delay"]}

LinesBy(by) == SelectSeq(log, LAMBDA e : e.by = by)

DelaysOf(v) == {id \in DOMAIN heap : id[1] = v.delay}

\* C19: printNumbers, printNumbersRecursively and printNumbersAsync each log
\* the numbers 1 to 5 in increasing order, each once, with one delay before
\* every number, and their promises settle only after 5 has been logged
C19_PrintNumbersEquivalent ==
    /\ \A v \in Variants :
          LET lines == LinesBy(v.by)
              logged == Len(lines)
          IN  /\ logged <= 5
              /\ \A i \in 1..logged :
                    /\ lines[i].message = Number(i)
                    /\ i > 1 => lines[i].timestamp >= lines[i - 1].timestamp + printNumbersDelay
              /\ Cardinality({id \in DelaysOf(v) : heap[id].state = "fulfilled"}) \in {logged, logged + 1}
              /\ Cardinality(DelaysOf(v)) \in {logged, logged + 1}
              /\ Cardinality(DelaysOf(v)) <= 5
              /\ Has(v.promise) =>
                    /\ logged < 5 => heap[v.promise].state = "pending"
                    /\ Cardinality(DelaysOf(v)) >= 1
    /\ prog.main = 14 =>
          \A v \in Variants :
              /\ Fulfilled(v.promise)
              /\ Messages(v.by) = [i \in 1..5 |-> Number(i)]

\* the script has ended and every variant has logged its five numbers
C19_Witness ==
    /\ prog.main = 14
    /\ \A v \in Variants : Len(LinesBy(v.by)) = 5 /\ Fulfilled(v.promise)

\* C20: retrieve(functor) resolves to the value the functor returns, be it
\* returned directly or through a promise that fulfils with it; it does not
\* settle before the functor's promise has, and fails when that promise fails
C20_Retrieve ==
    prog.script = "retrieve" =>
    /\ \A site \in 1..Len(prog.functor) :
          LET x == prog.functor[site]
              retrieved == heap[Id("retrieve", site)]
          IN  IF x.type = "promise"
              THEN /\ retrieved.state # "pending" =>
                         /\ heap[x.v].state = retrieved.state
                         /\ heap[x.v].value = retrieved.value
                   /\ (microtasks = <<>> /\ heap[x.v].state # "pending") =>
                         retrieved.state = heap[x.v].state
              ELSE /\ retrieved.state # "rejected"
                   /\ retrieved.state = "fulfilled" => retrieved.value = x
                   /\ microtasks = <<>> => retrieved.state = "fulfilled"
    /\ \A s1, s2 \in 1..Len(prog.functor) :
          (/\ prog.functor[s1].type # "promise"
           /\ prog.functor[s2].type = "promise"
           /\ heap[prog.functor[s2].v].state = "fulfilled"
           /\ heap[prog.functor[s2].v].value = prog.functor[s1]
           /\ microtasks = <<>>)
          => heap[Id("retrieve", s1)] = heap[Id("retrieve", s2)]

\* one retrieve has returned the value of its functor's promise and another
\* one has failed with the reason its functor's promise failed with
C20_Witness ==
    /\ prog.script = "retrieve"
    /\ Len(prog.functor) = 2
    /\ \A site \in 1..2 : prog.functor[site].type = "promise"
    /\ heap[Id("retrieve", 1)].state = "fulfilled"
    /\ heap[Id("retrieve", 2)].state = "rejected"
    /\ heap[Id("retrieve", 2)].value \in Reasons

\* ----------------------------------------------- the calculators' properties
\* C21: after the same sequence of add and multiply calls from the same start
\* value, PolyBasicCalculator.currentValue() equals
\* BasicCalculator.currentValue()
C21_PolyEqualsBasic ==
    prog.script = "calculators" =>
        CurrentValue(prog.objects, prog.chain[3]) = CurrentValue(prog.objects, prog.chain[1])

\* C22: add, multiply and sin of all four calculators return the receiver
\* itself and never a new instance, so a chain works on one object and
\* currentValue() at the end of the chain is currentValue() of the original
C22_FluentReturnsThis ==
    /\ [](prog.script = "calculators" =>
            /\ Len(prog.objects) = 4
            /\ \A i \in 1..4 :
                  /\ prog.chain[i] = i
                  /\ CurrentValue(prog.objects, prog.chain[i]) = CurrentValue(prog.objects, i))
    /\ [][\A i \in 1..4, method \in {"add", "multiply", "sin"}, operand \in Operands :
            (method = "sin" => prog.objects[i].class \in Scientific)
            => Invoke(prog.objects, i, method, operand).result = i]_vars

\* a chain of sin, add and multiply calls has run on the scientific
\* calculators and changed the value of the original objects
C22_Witness ==
    /\ prog.script = "calculators"
    /\ prog.steps = MaxSteps
    /\ \A i \in 1..4 : prog.chain[i] = i
    /\ \A i \in {2, 4} : Len(prog.objects[i].value.over) >= 2
    /\ prog.objects[1].value # Integer(0)
    /\ prog.objects[1].value # prog.objects[3].value

\* ------------------------------------------------------ oneOf's properties
\* C23: oneOf with two to five arguments returns one of its arguments: the
\* index is within 0 .. options.length - 1, the result is the argument at
\* that position, and every position is the result for some random number
C23_OneOfInRange ==
    /\ prog.script = "oneOf" /\ prog.called =>
          /\ prog.index \in 0..(Len(prog.options) - 1)
          /\ prog.result = prog.options[prog.index + 1]
          /\ \E position \in 1..Len(prog.options) : prog.result = prog.options[position]
    /\ \A length \in Arities : \A index \in 0..(length - 1) :
          \E random \in Randoms : MathFloor(Rounded(random * length)) = index

\* oneOf with five arguments has returned its last argument, and that one
\* is not undefined
C23_Witness ==
    /\ prog.script = "oneOf" /\ prog.called
    /\ Len(prog.options) = 5
    /\ prog.index = 4
    /\ prog.result = String("Worker")
    /\ prog.options[1] = Undefined
====
